---- MODULE Spec2Model ----
(***************************************************************************)
(* Model of the multitouch controls overlay                                *)
(* (src/components/game/controls-overlay.tsx) and of its consumer          *)
(* GameScreen (src/app/(tabs)/game.tsx).                                   *)
(*                                                                         *)
(* React state is modelled by two copies where a handler reads it: the     *)
(* current state value (joyActive, overlaySize) written by the setters,    *)
(* and the value captured by the closures of the last render (rendered).   *)
(* Refs (joystickTouchId, buttonTouches) are read and written directly.    *)
(* Lengths are in pixels; normalized joystick values are in 1/Scale,       *)
(* knob offsets in 1/Scale pixel, angles in whole degrees (rounded down).  *)
(* joystickSize is the value GameScreen passes; props holds the value the  *)
(* overlay was mounted with.                                               *)
(***************************************************************************)
EXTENDS Integers, Sequences, FiniteSets, TLC

\* ------------------------------------------------------------------ bounds
MaxTouchId == 2
MaxBatch == 2

\* --------------------------------------------------------------- constants
\* normalized values are kept in hundredths
Scale == 10 * 10
joystickSize == 140
joystickLeft == 30
joystickBottom == 40
buttonRadius == 30
joystickInset == 20

NULL == 0
TouchIds == 1..MaxTouchId

ActionType == {"attack", "dodge", "jump", "run"}

\* the window size returned by Dimensions.get('window') at mount
initialSize == [width |-> 800, height |-> 400]

\* sizes the host reports in layout events (one has a zero height, one a
\* zero width; at width 320 the run button overlaps the joystick)
LayoutSizes ==
  { [width |-> 800, height |-> 400],
    [width |-> 320, height |-> 400],
    [width |-> 800, height |-> 0],
    [width |-> 0, height |-> 400] }

\* touch positions the host reports (pageX, pageY)
Points ==
  { [x |-> 100, y |-> 290],    \* joystick centre when height = 400
    [x |-> 750, y |-> 290],    \* attack centre when width = 800
    [x |-> 670, y |-> 230],    \* jump centre when width = 800
    [x |-> 400, y |-> 100] }   \* over no control

\* the position carried by touches of end/cancel batches (never read)
EndPoint == [x |-> 400, y |-> 100]

\* ------------------------------------------------------------- arithmetic
Abs(n) == IF n < 0 THEN -n ELSE n
Min(a, b) == IF a <= b THEN a ELSE b
Max(a, b) == IF a >= b THEN a ELSE b

\* a / b truncated towards zero
TruncDiv(a, b) ==
  IF (a >= 0) = (b > 0) THEN Abs(a) \div Abs(b) ELSE -(Abs(a) \div Abs(b))

RECURSIVE IsqrtIn(_, _, _)
IsqrtIn(n, lo, hi) ==
  IF lo >= hi THEN lo
  ELSE LET mid == (lo + hi + 1) \div 2
       IN IF mid * mid <= n THEN IsqrtIn(n, mid, hi)
          ELSE IsqrtIn(n, lo, mid - 1)

\* floor of the square root of n (Math.sqrt, rounded down)
Isqrt(n) == IsqrtIn(n, 0, Min(n, 46340))

\* floor(10000 * tan(a degrees)) for a = 0..45, at index a + 1
TanTab ==
  << 0, 174, 349, 524, 699, 874, 1051, 1227, 1405, 1583, 1763, 1943, 2125,
     2308, 2493, 2679, 2867, 3057, 3249, 3443, 3639, 3838, 4040, 4244, 4452,
     4663, 4877, 5095, 5317, 5543, 5773, 6008, 6248, 6494, 6745, 7002, 7265,
     7535, 7812, 8097, 8390, 8692, 9004, 9325, 9656, 10000 >>

\* floor of atan(opp / adj) in degrees for 0 <= opp <= adj, adj > 0
RECURSIVE AtanLow(_, _, _)
AtanLow(opp, adj, a) ==
  IF a < 45 /\ TanTab[a + 2] * adj <= opp * 10000
  THEN AtanLow(opp, adj, a + 1)
  ELSE a

\* floor of atan2(ady, adx) in degrees for adx, ady >= 0 (0 at the origin)
AtanQuadrant(adx, ady) ==
  IF adx = 0 /\ ady = 0 THEN 0
  ELSE IF ady <= adx THEN AtanLow(ady, adx, 0)
  ELSE IF adx = 0 THEN 90
  ELSE 89 - AtanLow(adx, ady, 0)

\* the angle of quadrant one is a whole number of degrees
WholeDegrees(adx, ady) == adx = 0 \/ ady = 0 \/ adx = ady

\* ((Math.atan2(dy, dx) * 180) / Math.PI + 360) % 360, rounded down
AngleDeg(dx, dy) ==
  LET q == AtanQuadrant(Abs(dx), Abs(dy))
      frac == IF WholeDegrees(Abs(dx), Abs(dy)) THEN 0 ELSE 1
  IN IF dy >= 0 /\ dx >= 0 THEN q
     ELSE IF dy >= 0 THEN 180 - q - frac
     ELSE IF dx < 0 THEN 180 + q
     ELSE (360 - q - frac) % 360

\* ---------------------------------------------------------------- layout
\* for the joystickSize js the overlay was given (an even number)
maxDistance(js) == js \div 2 - joystickInset

joystickCenter(js, size) ==
  [x |-> joystickLeft + js \div 2,
   y |-> size.height - (joystickBottom + js \div 2)]

buttons ==
  << [type |-> "attack", right |-> 20,  bottom |-> 80],
     [type |-> "dodge",  right |-> 100, bottom |-> 20],
     [type |-> "jump",   right |-> 100, bottom |-> 140],
     [type |-> "run",    right |-> 180, bottom |-> 80] >>

\* getButtonCenter that places every button on the bottom row
getButtonCenter_IgnoresBottom(size, b) ==
  [x |-> size.width - (b.right + buttonRadius),
   y |-> size.height - buttonRadius]

getButtonCenter(size, b) ==
  [x |-> size.width - (b.right + buttonRadius),
   y |-> size.height - (b.bottom + buttonRadius)]

\* the hit test with the rim of the circle left out
WithinRadius_Strict(dx, dy, r) == dx * dx + dy * dy < r * r

\* Math.sqrt(dx*dx + dy*dy) <= r, for whole dx, dy and r
WithinRadius(dx, dy, r) == dx * dx + dy * dy <= r * r

hitTestJoystick(js, size, x, y) ==
  LET c == joystickCenter(js, size)
  IN WithinRadius(x - c.x, y - c.y, js \div 2)

RECURSIVE hitTestButtonsFrom(_, _, _, _)
hitTestButtonsFrom(size, x, y, i) ==
  IF i > Len(buttons) THEN "none"
  ELSE LET c == getButtonCenter(size, buttons[i])
       IN IF WithinRadius(x - c.x, y - c.y, buttonRadius)
          THEN buttons[i].type
          ELSE hitTestButtonsFrom(size, x, y, i + 1)

\* the loop of hitTestButtons started at the second button
hitTestButtons_FromSecond(size, x, y) == hitTestButtonsFrom(size, x, y, 2)

\* the first button whose circle contains the point, "none" for null
hitTestButtons(size, x, y) == hitTestButtonsFrom(size, x, y, 1)

\* styles.buttonsContainer (right, bottom) and styles.button (width, height)
buttonsContainerRight == 20
buttonsContainerBottom == 20
buttonWidth == 60
buttonHeight == 60

\* centre of the view drawn for button b: the button is laid out at right,
\* bottom inside buttonsContainer, which is laid out at right, bottom inside
\* the overlay
drawnButtonCenter(size, b) ==
  [x |-> size.width - buttonsContainerRight - b.right - buttonWidth \div 2,
   y |-> size.height - buttonsContainerBottom - b.bottom
           - buttonHeight \div 2]

\* ------------------------------------------------------------ joystick data
JoystickDataZero == [x |-> 0, y |-> 0, angle |-> 0, distance |-> 0]
joyPosZero == [x |-> 0, y |-> 0]

\* the value standing for NaN (0 / 0 and what Math.min and Math.max make
\* of it); it lies outside every range a claim speaks of
NaN == -(Scale * Scale * Scale)

\* Math.max(-1, Math.min(1, d / maxDistance)), in 1/Scale, for maxDistance m
Normalized(m, d) ==
  IF m = 0
  THEN IF d = 0 THEN NaN ELSE IF d > 0 THEN Scale ELSE -Scale
  ELSE Max(-Scale, Min(Scale, TruncDiv(d * Scale, m)))

\* distance / maxDistance without Math.min
NormalizedDistance_Unclamped(m, dx, dy) ==
  IF m = 0
  THEN IF dx = 0 /\ dy = 0 THEN NaN ELSE Scale
  ELSE TruncDiv(Isqrt(Scale * Scale * (dx * dx + dy * dy)), m)

\* Math.min(distance / maxDistance, 1), in 1/Scale, for maxDistance m
NormalizedDistance(m, dx, dy) ==
  IF m = 0
  THEN IF dx = 0 /\ dy = 0 THEN NaN ELSE Scale
  ELSE IF m > 0 /\ dx * dx + dy * dy >= m * m THEN Scale
  ELSE TruncDiv(Isqrt(Scale * Scale * (dx * dx + dy * dy)), m)

\* Math.cos(angleRad) * maxDistance for d = dx, Math.sin(angleRad) *
\* maxDistance for d = dy, in 1/Scale pixel: d * maxDistance / distance
\* (atan2(0, 0) is 0, its cosine 1 and its sine 0)
Projected(m, d, dx, dy) ==
  IF dx = 0 /\ dy = 0
  THEN IF d = 1 THEN m * Scale ELSE 0
  ELSE TruncDiv(d * m * Scale * 10, Isqrt(100 * (dx * dx + dy * dy)))

\* the knob offset without the projection onto the circle
KnobOffset_Unclamped(m, dx, dy) == [x |-> dx * Scale, y |-> dy * Scale]

\* the knob offset (finalX, finalY) stored by setJoyPos: distance >
\* maxDistance is decided on the squares when maxDistance is not negative
KnobOffset(m, dx, dy) ==
  IF m < 0 \/ dx * dx + dy * dy > m * m
  THEN IF dx = 0 /\ dy = 0
       THEN [x |-> Projected(m, 1, 0, 0), y |-> Projected(m, 0, 0, 0)]
       ELSE [x |-> Projected(m, dx, dx, dy), y |-> Projected(m, dy, dx, dy)]
  ELSE [x |-> dx * Scale, y |-> dy * Scale]

\* the payload handed to onJoystickMove
JoystickPayload(m, dx, dy) ==
  [x |-> Normalized(m, dx), y |-> Normalized(m, dy),
   angle |-> AngleDeg(dx, dy), distance |-> NormalizedDistance(m, dx, dy)]

\* ----------------------------------------------------------------- events
JoyMoveEvent(id, data) ==
  [type |-> "joystickMove", by |-> id, action |-> "none", data |-> data]
JoyReleaseEvent(id) ==
  [type |-> "joystickRelease", by |-> id, action |-> "none",
   data |-> JoystickDataZero]
PressEvent(id, btn) ==
  [type |-> "buttonPress", by |-> id, action |-> btn,
   data |-> JoystickDataZero]
ReleaseEvent(id, btn) ==
  [type |-> "buttonRelease", by |-> id, action |-> btn,
   data |-> JoystickDataZero]

\* ------------------------------------------------------------------ state
VARIABLES
  overlaySize,      \* useState: measured overlay size
  joyPos,           \* useState: knob offset
  joyActive,        \* useState: joystick shown active
  joystickTouchId,  \* useRef: id bound to the joystick, NULL when none
  pressedButtons,   \* useState: set of buttons shown pressed
  buttonTouches,    \* useRef: touch id -> button, "none" when absent
  rendered,         \* overlaySize and joyActive as captured by the handlers
  joystickData,     \* GameScreen useState: joystick vector
  activeButtons,    \* GameScreen useState: set of active buttons
  events,           \* callbacks invoked by the last handler, in order
  lastOp,           \* the last handler that ran and its event
  props,            \* the props the overlay was mounted with
  live,             \* ids the host holds down (kept by HostNext only)
  emitted,          \* tally of the callbacks invoked so far (kept by
                    \* HostNext only)
  virtualJoystick,  \* VirtualJoystick: activeTouchId and startPosition
                    \* (useRef), isActive and position (useState)
  touches           \* nativeEvent.touches: the touches that are down, in
                    \* the order they began (kept by LegacyNext only)

vars ==
  << overlaySize, joyPos, joyActive, joystickTouchId, pressedButtons,
     buttonTouches, rendered, joystickData, activeButtons, events, lastOp,
     props, live, emitted, virtualJoystick, touches >>

\* the state of the legacy joystick and of the host that drives it
legacyVars == << virtualJoystick, touches >>

\* the state of the overlay, of GameScreen and of the host of the overlay
overlayVars ==
  << overlaySize, joyPos, joyActive, joystickTouchId, pressedButtons,
     buttonTouches, rendered, joystickData, activeButtons, props, live,
     emitted >>

\* the mutable state a handler works on, with what its closure captured
Snapshot ==
  [js |-> props.joystickSize,
   size |-> rendered.overlaySize, active |-> rendered.joyActive,
   jt |-> joystickTouchId, ja |-> joyActive, jp |-> joyPos,
   bt |-> buttonTouches, pb |-> pressedButtons,
   jd |-> joystickData, ab |-> activeButtons, ev |-> << >>]

\* GameScreen callbacks
handleJoystickMove(st, data) == [st EXCEPT !.jd = data]
\* handleJoystickRelease that keeps the last vector
handleJoystickRelease_KeepsVector(st) == st

handleJoystickRelease(st) == [st EXCEPT !.jd = JoystickDataZero]
handleButtonPress(st, action) == [st EXCEPT !.ab = @ \cup {action}]
handleButtonRelease(st, action) == [st EXCEPT !.ab = @ \ {action}]

moveJoystickWithTouch(st, id, x, y) ==
  LET c == joystickCenter(st.js, st.size)
      dx == x - c.x
      dy == y - c.y
      data == JoystickPayload(maxDistance(st.js), dx, dy)
      moved == [st EXCEPT !.jp = KnobOffset(maxDistance(st.js), dx, dy),
                          !.ev = Append(@, JoyMoveEvent(id, data))]
  IN handleJoystickMove(moved, data)

startJoystickWithTouch(st, id, x, y) ==
  moveJoystickWithTouch([st EXCEPT !.jt = id, !.ja = TRUE], id, x, y)

\* releaseJoystick that leaves the knob where it was
releaseJoystick_KeepsKnob(st, id) ==
  IF ~st.active THEN st
  ELSE handleJoystickRelease(
         [st EXCEPT !.jt = NULL, !.ja = FALSE,
                    !.ev = Append(@, JoyReleaseEvent(id))])

releaseJoystick(st, id) ==
  IF ~st.active THEN st
  ELSE handleJoystickRelease(
         [st EXCEPT !.jt = NULL, !.ja = FALSE, !.jp = joyPosZero,
                    !.ev = Append(@, JoyReleaseEvent(id))])

\* StartTouch that hit-tests the buttons before the joystick
StartTouch_ButtonsFirst(st, t) ==
  LET btn == hitTestButtons(st.size, t.x, t.y)
  IN IF btn # "none"
     THEN handleButtonPress(
            [st EXCEPT !.bt[t.id] = btn, !.pb = @ \cup {btn},
                       !.ev = Append(@, PressEvent(t.id, btn))], btn)
     ELSE IF st.jt = NULL /\ hitTestJoystick(st.js, st.size, t.x, t.y)
     THEN startJoystickWithTouch(st, t.id, t.x, t.y)
     ELSE st

\* StartTouch without the test that the joystick is unclaimed
StartTouch_ClaimsHeldJoystick(st, t) ==
  IF hitTestJoystick(st.js, st.size, t.x, t.y)
  THEN startJoystickWithTouch(st, t.id, t.x, t.y)
  ELSE LET btn == hitTestButtons(st.size, t.x, t.y)
       IN IF btn # "none"
          THEN handleButtonPress(
                 [st EXCEPT !.bt[t.id] = btn, !.pb = @ \cup {btn},
                            !.ev = Append(@, PressEvent(t.id, btn))], btn)
          ELSE st

\* body of the loop of handleTouchStart for one changed touch
StartTouch(st, t) ==
  IF st.jt = NULL /\ hitTestJoystick(st.js, st.size, t.x, t.y)
  THEN startJoystickWithTouch(st, t.id, t.x, t.y)
  ELSE LET btn == hitTestButtons(st.size, t.x, t.y)
       IN IF btn # "none"
          THEN handleButtonPress(
                 [st EXCEPT !.bt[t.id] = btn, !.pb = @ \cup {btn},
                            !.ev = Append(@, PressEvent(t.id, btn))], btn)
          ELSE st

\* MoveTouch that hit-tests the buttons again at the new position
MoveTouch_Reclassifies(st, t) ==
  LET btn == hitTestButtons(st.size, t.x, t.y)
  IN IF btn # "none"
     THEN [st EXCEPT !.bt[t.id] = btn, !.pb = @ \cup {btn}]
     ELSE IF t.id = st.jt THEN moveJoystickWithTouch(st, t.id, t.x, t.y)
     ELSE st

\* body of the loop of handleTouchMove for one changed touch
MoveTouch(st, t) ==
  IF t.id = st.jt THEN moveJoystickWithTouch(st, t.id, t.x, t.y) ELSE st

\* EndButton that does not call onButtonRelease
EndButton_Silent(st, t) ==
  LET btn == st.bt[t.id]
  IN IF btn # "none"
     THEN [st EXCEPT !.bt[t.id] = "none", !.pb = @ \ {btn}]
     ELSE st

\* EndButton that clears every pressed button
EndButton_ClearsAll(st, t) ==
  LET btn == st.bt[t.id]
  IN IF btn # "none"
     THEN handleButtonRelease(
            [st EXCEPT !.bt[t.id] = "none", !.pb = {},
                       !.ev = Append(@, ReleaseEvent(t.id, btn))], btn)
     ELSE st

\* the button part of the loop of handleTouchEnd
EndButton(st, t) ==
  LET btn == st.bt[t.id]
  IN IF btn # "none"
     THEN handleButtonRelease(
            [st EXCEPT !.bt[t.id] = "none", !.pb = @ \ {btn},
                       !.ev = Append(@, ReleaseEvent(t.id, btn))], btn)
     ELSE st

\* EndTouch that releases the joystick whatever the id
EndTouch_AnyIdReleasesJoystick(st, t) ==
  EndButton(releaseJoystick(st, t.id), t)

\* body of the loop of handleTouchEnd for one changed touch
EndTouch(st, t) ==
  EndButton(IF t.id = st.jt THEN releaseJoystick(st, t.id) ELSE st, t)

RECURSIVE handleTouchStart(_, _)
handleTouchStart(st, changed) ==
  IF changed = << >> THEN st
  ELSE handleTouchStart(StartTouch(st, Head(changed)), Tail(changed))

RECURSIVE handleTouchMove(_, _)
handleTouchMove(st, changed) ==
  IF changed = << >> THEN st
  ELSE handleTouchMove(MoveTouch(st, Head(changed)), Tail(changed))

RECURSIVE handleTouchEnd(_, _)
handleTouchEnd(st, changed) ==
  IF changed = << >> THEN st
  ELSE handleTouchEnd(EndTouch(st, Head(changed)), Tail(changed))

\* the props of the overlay View
onTouchStart(st, changed) == handleTouchStart(st, changed)
onTouchMove(st, changed) == handleTouchMove(st, changed)
onTouchEnd(st, changed) == handleTouchEnd(st, changed)
\* onTouchCancel wired to a handler that releases nothing
onTouchCancel_ReleasesNothing(st, changed) == handleTouchMove(st, changed)
onTouchCancel(st, changed) == handleTouchEnd(st, changed)

\* ---------------------------------------------------------------- batches
Touches(P) == [id : TouchIds, x : {p.x : p \in P}, y : {p.y : p \in P}]

TouchesAt(P) == {t \in Touches(P) : [x |-> t.x, y |-> t.y] \in P}

\* changedTouches: one to MaxBatch touches with distinct identifiers
Batches(P) ==
  UNION { { b \in [1..n -> TouchesAt(P)] :
              \A i, j \in 1..n : i # j => b[i].id # b[j].id } :
          n \in 1..MaxBatch }

\* the batches the host delivers to the touch handlers
TouchBatches == Batches(Points)
EndBatches == Batches({EndPoint})

Ids(batch) == {batch[i].id : i \in 1..Len(batch)}

Op(kind, batch, size) == [kind |-> kind, batch |-> batch, size |-> size]

\* ---------------------------------------------------------------- actions
\* the tally after one more callback: press minus release per action,
\* whether onJoystickMove has been invoked since the last onJoystickRelease,
\* and whether an onJoystickRelease came without one
TallyEvent(tally, e) ==
  IF e.type = "buttonPress"
  THEN [tally EXCEPT !.net[e.action] = @ + 1]
  ELSE IF e.type = "buttonRelease"
  THEN [tally EXCEPT !.net[e.action] = @ - 1]
  ELSE IF e.type = "joystickMove"
  THEN [tally EXCEPT !.moved = TRUE]
  ELSE [tally EXCEPT !.moved = FALSE,
                     !.unmatched = @ \/ ~tally.moved]

RECURSIVE Tally(_, _)
Tally(tally, ev) ==
  IF ev = << >> THEN tally
  ELSE Tally(TallyEvent(tally, Head(ev)), Tail(ev))

TallyZero ==
  [net |-> [a \in ActionType |-> 0], moved |-> FALSE, unmatched |-> FALSE]

\* ------------------------------------------------ the legacy VirtualJoystick
\* default of the size prop of VirtualJoystick
legacySize == 120

\* VirtualJoystick after construction
virtualJoystickZero ==
  [activeTouchId |-> NULL, isActive |-> FALSE, position |-> joyPosZero,
   startPosition |-> [x |-> 0, y |-> 0]]

\* the handlers of VirtualJoystick work on [vj, ev]: the state of the
\* component and the callbacks invoked
vjHandleTouchStart(vj, allTouches) ==
  IF vj.activeTouchId # NULL THEN [vj |-> vj, ev |-> << >>]
  ELSE IF allTouches = << >> THEN [vj |-> vj, ev |-> << >>]
  ELSE LET touch == allTouches[Len(allTouches)]
       IN [vj |-> [vj EXCEPT !.activeTouchId = touch.id,
                             !.startPosition = [x |-> touch.x, y |-> touch.y],
                             !.isActive = TRUE],
           ev |-> << >>]

vjHandleTouchMove(vj, allTouches) ==
  LET ours == {i \in 1..Len(allTouches) :
                 allTouches[i].id = vj.activeTouchId}
  IN IF vj.activeTouchId = NULL \/ ours = {}
     THEN [vj |-> vj, ev |-> << >>]
     ELSE LET ourTouch == allTouches[CHOOSE i \in ours :
                                       \A j \in ours : i <= j]
              dx == ourTouch.x - vj.startPosition.x
              dy == ourTouch.y - vj.startPosition.y
              m == maxDistance(legacySize)
          IN [vj |-> [vj EXCEPT !.position = KnobOffset(m, dx, dy)],
              ev |-> << JoyMoveEvent(ourTouch.id,
                                     JoystickPayload(m, dx, dy)) >>]

\* handleTouchEnd that takes any ended touch for its own
vjHandleTouchEnd_AnyTouch(vj, changed) ==
  IF vj.activeTouchId # NULL
  THEN [vj |-> [vj EXCEPT !.activeTouchId = NULL, !.isActive = FALSE,
                          !.position = joyPosZero],
        ev |-> << JoyReleaseEvent(vj.activeTouchId) >>]
  ELSE [vj |-> vj, ev |-> << >>]

vjHandleTouchEnd(vj, changed) ==
  IF \E i \in 1..Len(changed) : changed[i].id = vj.activeTouchId
  THEN [vj |-> [vj EXCEPT !.activeTouchId = NULL, !.isActive = FALSE,
                          !.position = joyPosZero],
        ev |-> << JoyReleaseEvent(vj.activeTouchId) >>]
  ELSE [vj |-> vj, ev |-> << >>]

\* the state after the overlay is mounted with joystickSize js
Mount(js) ==
  /\ overlaySize = initialSize
  /\ joyPos = joyPosZero
  /\ joyActive = FALSE
  /\ joystickTouchId = NULL
  /\ pressedButtons = {}
  /\ buttonTouches = [id \in TouchIds |-> "none"]
  /\ rendered = [overlaySize |-> initialSize, joyActive |-> FALSE]
  /\ joystickData = JoystickDataZero
  /\ activeButtons = {}
  /\ events = << >>
  /\ lastOp = Op("mount", << >>, initialSize)
  /\ props = [joystickSize |-> js]
  /\ live = {}
  /\ emitted = TallyZero
  /\ virtualJoystick = virtualJoystickZero
  /\ touches = << >>

\* GameScreen mounts the overlay with joystickSize={140}
Init == Mount(joystickSize)

\* the state left by a touch handler
Commit(st, kind, batch) ==
  /\ joystickTouchId' = st.jt
  /\ joyActive' = st.ja
  /\ joyPos' = st.jp
  /\ buttonTouches' = st.bt
  /\ pressedButtons' = st.pb
  /\ joystickData' = st.jd
  /\ activeButtons' = st.ab
  /\ events' = st.ev
  /\ lastOp' = Op(kind, batch, rendered.overlaySize)
  /\ UNCHANGED << overlaySize, rendered, props >>

TouchStart(batch) ==
  Commit(onTouchStart(Snapshot, batch), "begin", batch)
    /\ UNCHANGED << live, emitted, legacyVars >>
TouchMove(batch) ==
  Commit(onTouchMove(Snapshot, batch), "move", batch)
    /\ UNCHANGED << live, emitted, legacyVars >>
TouchEnd(batch) ==
  Commit(onTouchEnd(Snapshot, batch), "end", batch)
    /\ UNCHANGED << live, emitted, legacyVars >>
TouchCancel(batch) ==
  Commit(onTouchCancel(Snapshot, batch), "cancel", batch)
    /\ UNCHANGED << live, emitted, legacyVars >>

\* onLayout without the test of width and height
onLayout_AcceptsZero(size) ==
  /\ overlaySize' = size
  /\ events' = << >>
  /\ lastOp' = Op("layout", << >>, size)
  /\ UNCHANGED << joyPos, joyActive, joystickTouchId, pressedButtons,
                  buttonTouches, rendered, joystickData, activeButtons,
                  props, live, emitted, legacyVars >>

onLayout(size) ==
  /\ overlaySize' =
       IF size.width # 0 /\ size.height # 0 THEN size ELSE overlaySize
  /\ events' = << >>
  /\ lastOp' = Op("layout", << >>, size)
  /\ UNCHANGED << joyPos, joyActive, joystickTouchId, pressedButtons,
                  buttonTouches, rendered, joystickData, activeButtons,
                  props, live, emitted, legacyVars >>

\* React re-renders the overlay: the handlers are re-created over the
\* current state
Render ==
  /\ rendered # [overlaySize |-> overlaySize, joyActive |-> joyActive]
  /\ rendered' = [overlaySize |-> overlaySize, joyActive |-> joyActive]
  /\ events' = << >>
  /\ lastOp' = Op("render", << >>, overlaySize)
  /\ UNCHANGED << overlaySize, joyPos, joyActive, joystickTouchId,
                  pressedButtons, buttonTouches, joystickData,
                  activeButtons, props, live, emitted, legacyVars >>

Next ==
  \/ \E batch \in TouchBatches : TouchStart(batch)
  \/ \E batch \in TouchBatches : TouchMove(batch)
  \/ \E batch \in EndBatches : TouchEnd(batch)
  \/ \E batch \in EndBatches : TouchCancel(batch)
  \/ Render

\* the overlay under touch events and re-renders, its size as at mount
Spec == Init /\ [][Next]_vars

\* ------------------------------------- the overlay under other joystick sizes
\* joystickSize props a host may configure (even, so that joystickSize / 2
\* is whole): maxDistance is negative, zero and positive among them
JoystickSizes == {joystickInset, 2 * joystickInset, 3 * joystickInset,
                  joystickSize}

\* offsets from the joystick centre at which touches are delivered
SizeOffsets ==
  {[x |-> 0, y |-> 0], [x |-> 5, y |-> 0], [x |-> 0, y |-> -8],
   [x |-> 30, y |-> 0], [x |-> -60, y |-> 45]}

\* the points at the given offsets from the point c
Around(c, offsets) == {[x |-> c.x + o.x, y |-> c.y + o.y] : o \in offsets}

OffsetPoints(js, offsets) == Around(joystickCenter(js, initialSize), offsets)

\* changedTouches holding one touch
Singles(P) == {<< t >> : t \in TouchesAt(P)}

SizesInit == \E js \in JoystickSizes : Mount(js)

SizesNext ==
  \/ \E batch \in Singles(OffsetPoints(props.joystickSize, SizeOffsets)) :
        TouchStart(batch)
  \/ \E batch \in Singles(OffsetPoints(props.joystickSize, SizeOffsets)) :
        TouchMove(batch)
  \/ \E batch \in Singles({EndPoint}) : TouchEnd(batch)
  \/ \E batch \in Singles({EndPoint}) : TouchCancel(batch)
  \/ Render

\* the overlay mounted with any of JoystickSizes, one touch per event
SpecSizes == SizesInit /\ [][SizesNext]_vars

\* ------------------------------------------ the overlay at chosen positions
\* offsets from the joystick centre: the centre, maxDistance along x, twice
\* maxDistance along y, a diagonal beyond maxDistance, and the rim of the
\* joystick circle (on it at 70 = joystickSize / 2, and just outside it)
JoystickOffsets ==
  {[x |-> 0, y |-> 0], [x |-> 50, y |-> 0], [x |-> 0, y |-> 100],
   [x |-> 60, y |-> 80], [x |-> 70, y |-> 0], [x |-> 71, y |-> 0],
   [x |-> 42, y |-> 56], [x |-> 43, y |-> 56]}

\* offsets from a button centre: on the rim of the button circle (at 30 =
\* buttonRadius) and just outside it
ButtonOffsets ==
  {[x |-> 30, y |-> 0], [x |-> 31, y |-> 0],
   [x |-> -18, y |-> 24], [x |-> -19, y |-> 24]}

GeometryPoints ==
  OffsetPoints(joystickSize, JoystickOffsets)
    \cup Around(getButtonCenter(initialSize, buttons[1]), ButtonOffsets)

GeometryBatches == Singles(GeometryPoints)
GeometryEndBatches == Singles({EndPoint})

GeometryNext ==
  \/ \E batch \in GeometryBatches : TouchStart(batch)
  \/ \E batch \in GeometryBatches : TouchMove(batch)
  \/ \E batch \in GeometryEndBatches : TouchEnd(batch)
  \/ \E batch \in GeometryEndBatches : TouchCancel(batch)
  \/ Render

\* the overlay of GameScreen, one touch per event, at GeometryPoints
SpecGeometry == Init /\ [][GeometryNext]_vars

\* ------------------------------- the overlay under a host and layout events
\* touch positions: the joystick centre (inside the run button when the
\* width is 320), the attack centre when the width is 800, the attack
\* centre when the width is 320
LayoutPoints ==
  { [x |-> 100, y |-> 290], [x |-> 750, y |-> 290], [x |-> 270, y |-> 290] }

LayoutBatches == Singles(LayoutPoints)
LayoutEndBatches == Singles({EndPoint})

\* the host begins only touches that are not down, and moves, ends and
\* cancels only touches that are down
HostTouchStart(batch) ==
  /\ Ids(batch) \cap live = {}
  /\ Commit(onTouchStart(Snapshot, batch), "begin", batch)
  /\ live' = live \cup Ids(batch)
  /\ emitted' = Tally(emitted, events')
  /\ UNCHANGED legacyVars

HostTouchMove(batch) ==
  /\ Ids(batch) \subseteq live
  /\ Commit(onTouchMove(Snapshot, batch), "move", batch)
  /\ emitted' = Tally(emitted, events')
  /\ UNCHANGED legacyVars
  /\ UNCHANGED live

HostTouchEnd(batch) ==
  /\ Ids(batch) \subseteq live
  /\ Commit(onTouchEnd(Snapshot, batch), "end", batch)
  /\ live' = live \ Ids(batch)
  /\ emitted' = Tally(emitted, events')
  /\ UNCHANGED legacyVars

HostTouchCancel(batch) ==
  /\ Ids(batch) \subseteq live
  /\ Commit(onTouchCancel(Snapshot, batch), "cancel", batch)
  /\ live' = live \ Ids(batch)
  /\ emitted' = Tally(emitted, events')
  /\ UNCHANGED legacyVars

HostNext ==
  \/ \E batch \in LayoutBatches : HostTouchStart(batch)
  \/ \E batch \in LayoutBatches : HostTouchMove(batch)
  \/ \E batch \in LayoutEndBatches : HostTouchEnd(batch)
  \/ \E batch \in LayoutEndBatches : HostTouchCancel(batch)
  \/ \E size \in LayoutSizes : onLayout(size)
  \/ Render

\* the overlay of GameScreen under a host that tracks its touches, one
\* touch per event, with layout events
SpecLayout == Init /\ [][HostNext]_vars

\* --------------------------------- the legacy VirtualJoystick under a host
\* touch positions: a start, maxDistance to its right, and beyond
\* maxDistance below it
LegacyPoints ==
  { [x |-> 60, y |-> 300], [x |-> 100, y |-> 300], [x |-> 60, y |-> 380] }

LegacyBatches == Singles(LegacyPoints)
LegacyEndBatches == Batches({EndPoint})

\* ids of the touches that are down
Down == {touches[i].id : i \in 1..Len(touches)}

\* the touches that are down with the touch t moved
Moved(t) == [i \in 1..Len(touches) |->
               IF touches[i].id = t.id THEN t ELSE touches[i]]

\* the touches that are down without those of the batch
RECURSIVE Remaining(_, _)
Remaining(ts, ids) ==
  IF ts = << >> THEN << >>
  ELSE IF Head(ts).id \in ids THEN Remaining(Tail(ts), ids)
  ELSE << Head(ts) >> \o Remaining(Tail(ts), ids)

\* the state left by a handler of VirtualJoystick
LegacyCommit(res, kind, batch) ==
  /\ virtualJoystick' = res.vj
  /\ events' = res.ev
  /\ lastOp' = Op(kind, batch, initialSize)
  /\ UNCHANGED overlayVars

LegacyTouchStart(batch) ==
  /\ Ids(batch) \cap Down = {}
  /\ touches' = touches \o batch
  /\ LegacyCommit(vjHandleTouchStart(virtualJoystick, touches'),
                  "begin", batch)

LegacyTouchMove(batch) ==
  /\ Ids(batch) \subseteq Down
  /\ touches' = Moved(batch[1])
  /\ LegacyCommit(vjHandleTouchMove(virtualJoystick, touches'),
                  "move", batch)

LegacyTouchEnd(batch) ==
  /\ Ids(batch) \subseteq Down
  /\ touches' = Remaining(touches, Ids(batch))
  /\ LegacyCommit(vjHandleTouchEnd(virtualJoystick, batch), "end", batch)

LegacyTouchCancel(batch) ==
  /\ Ids(batch) \subseteq Down
  /\ touches' = Remaining(touches, Ids(batch))
  /\ LegacyCommit(vjHandleTouchEnd(virtualJoystick, batch), "cancel", batch)

LegacyNext ==
  \/ \E batch \in LegacyBatches : LegacyTouchStart(batch)
  \/ \E batch \in LegacyBatches : LegacyTouchMove(batch)
  \/ \E batch \in LegacyEndBatches : LegacyTouchEnd(batch)
  \/ \E batch \in LegacyEndBatches : LegacyTouchCancel(batch)

\* the legacy VirtualJoystick under a host that tracks its touches
SpecLegacy == Init /\ [][LegacyNext]_vars

TypeOK ==
  /\ virtualJoystick.activeTouchId \in TouchIds \cup {NULL}
  /\ props.joystickSize \in JoystickSizes
  /\ live \subseteq TouchIds
  /\ emitted.moved \in BOOLEAN
  /\ joystickTouchId \in TouchIds \cup {NULL}
  /\ joyActive \in BOOLEAN
  /\ pressedButtons \subseteq ActionType
  /\ activeButtons \subseteq ActionType
  /\ buttonTouches \in [TouchIds -> ActionType \cup {"none"}]

\* ----------------------------------------------------- vocabulary of claims
IsEnd(op) == op.kind \in {"end", "cancel"}

\* positions in a sequence of events holding an event of the given type
OfType(ev, type) == {i \in 1..Len(ev) : ev[i].type = type}

\* positions in a sequence of events holding an event caused by touch id
CausedBy(ev, id) == {i \in 1..Len(ev) : ev[i].by = id}

JoystickEventTypes == {"joystickMove", "joystickRelease"}

\* the bindings of touch id as the router holds them
BoundToJoystick(id) == joystickTouchId = id
BoundToButton(id) == buttonTouches[id] # "none"
Unbound(id) == ~BoundToJoystick(id) /\ ~BoundToButton(id)

\* indexes of the touches of a batch that lie in the joystick circle
JoystickHits(batch) ==
  {i \in 1..Len(batch) :
     hitTestJoystick(props.joystickSize, rendered.overlaySize, batch[i].x, batch[i].y)}

Least(S) == CHOOSE i \in S : \A j \in S : i <= j

\* C1: once the end or cancel of touch t has been processed, no control is
\* still bound to t: joystickTouchId is not t and buttonTouches has no
\* entry for t, whatever the interleaving of batches and re-renders.
C1_NothingBoundAfterEnd ==
  IsEnd(lastOp) =>
    \A t \in Ids(lastOp.batch) :
      joystickTouchId # t /\ buttonTouches[t] = "none"

\* C2: after every event batch, no touch id is at the same time the
\* joystick's id and a key of buttonTouches.
C2_AtMostOneControlPerTouch ==
  \A t \in TouchIds : ~(BoundToJoystick(t) /\ BoundToButton(t))

\* C3: a button is bound to at most one touch at a time: no two touch ids
\* are keys of buttonTouches with the same button.
C3_AtMostOneTouchPerButton ==
  \A t, u \in TouchIds :
    (t # u /\ BoundToButton(t)) => buttonTouches[t] # buttonTouches[u]

\* C4: at most one touch is bound to the joystick: a begin batch handled
\* while the joystick is bound to t leaves joystickTouchId equal to t and
\* emits no joystick update; a begin batch handled while it is unbound binds
\* it to the first touch of the batch inside the joystick circle and emits
\* one joystick update, for that touch only.
C4_JoystickKeepsItsTouch ==
  [][lastOp'.kind = "begin" =>
       LET b == lastOp'.batch
           moves == OfType(events', "joystickMove")
       IN IF joystickTouchId # NULL
          THEN joystickTouchId' = joystickTouchId /\ moves = {}
          ELSE IF JoystickHits(b) = {}
          THEN joystickTouchId' = NULL /\ moves = {}
          ELSE /\ joystickTouchId' = b[Least(JoystickHits(b))].id
               /\ Cardinality(moves) = 1
               /\ \A i \in moves : events'[i].by = joystickTouchId']_vars

\* C4 witness: a begin batch of two touches inside the joystick circle has
\* been handled; the joystick is bound to the first and the only event is
\* the first touch's joystick update.
C4_Witness ==
  /\ lastOp.kind = "begin"
  /\ Len(lastOp.batch) = 2
  /\ JoystickHits(lastOp.batch) = {1, 2}
  /\ joystickTouchId = lastOp.batch[1].id
  /\ Len(events) = 1
  /\ events[1].type = "joystickMove"
  /\ events[1].by = lastOp.batch[1].id

\* C5: every move of the touch bound to the joystick emits exactly one
\* onJoystickMove, and its end emits exactly one onJoystickRelease, after
\* which the joystick is unbound, the knob offset is (0,0) and the
\* consumer's joystick vector is the zero vector.
C5_JoystickMoveAndRelease ==
  [][(joystickTouchId # NULL /\ joystickTouchId \in Ids(lastOp'.batch)) =>
       /\ lastOp'.kind = "move" =>
            /\ Cardinality(OfType(events', "joystickMove")) = 1
            /\ joystickData' = events'[Len(events')].data
       /\ IsEnd(lastOp') =>
            /\ Cardinality(OfType(events', "joystickRelease")) = 1
            /\ joystickTouchId' = NULL
            /\ joyPos' = joyPosZero
            /\ joystickData' = JoystickDataZero]_vars

\* C6: the control a touch is bound to never changes during its lifetime:
\* no move batch, and no batch that does not carry the touch, changes
\* whether the touch is the joystick's touch or which button it is bound to.
C6_BindingNeverChanges ==
  [][\A t \in TouchIds :
       (lastOp'.kind = "move" \/ t \notin Ids(lastOp'.batch)) =>
         /\ (joystickTouchId' = t) = (joystickTouchId = t)
         /\ buttonTouches'[t] = buttonTouches[t]]_vars

\* C6 witness: the touch bound to the joystick has moved into a button's
\* circle while another touch is bound to a button; it is still the
\* joystick's touch and has no button binding.
C6_Witness ==
  /\ lastOp.kind = "move"
  /\ \E i \in 1..Len(lastOp.batch) :
       /\ lastOp.batch[i].id = joystickTouchId
       /\ hitTestButtons(rendered.overlaySize, lastOp.batch[i].x,
                         lastOp.batch[i].y) # "none"
       /\ buttonTouches[lastOp.batch[i].id] = "none"
  /\ \E u \in TouchIds : BoundToButton(u)

\* the joystick and its consumer-side vector are as before the step
JoystickUntouched ==
  UNCHANGED << joystickTouchId, joyActive, joyPos, joystickData >>

\* bindings of the touches outside ids, and the pressed state of the
\* buttons outside btns, are as before the step
OtherButtonsUntouched(ids, btns) ==
  /\ \A u \in TouchIds \ ids : buttonTouches'[u] = buttonTouches[u]
  /\ \A a \in ActionType \ btns :
       /\ (a \in pressedButtons') = (a \in pressedButtons)
       /\ (a \in activeButtons') = (a \in activeButtons)

\* C7: events of one bound touch affect only that touch's own control.
\* A move or end batch of the touch bound to the joystick (and to no
\* button), and the begin that binds the joystick, emit joystick events
\* only and leave buttonTouches and pressedButtons unchanged. An end batch
\* of touches bound to buttons (and not to the joystick), and a begin batch
\* handled while the joystick is held, emit only press/release events for
\* the batch's own buttons and leave the joystick binding, active flag and
\* knob offset, every other touch's binding and every other button's
\* pressed state unchanged.
C7_EventsStayWithTheirControl ==
  [][LET b == lastOp'.batch
         ids == Ids(b)
         joyOnly == \A t \in ids : BoundToJoystick(t) /\ ~BoundToButton(t)
         btnOnly == \A t \in ids : BoundToButton(t) /\ ~BoundToJoystick(t)
         fresh == \A t \in ids : Unbound(t)
     IN /\ ((lastOp'.kind = "move" \/ IsEnd(lastOp')) /\ joyOnly) =>
             /\ \A i \in 1..Len(events') :
                  events'[i].type \in JoystickEventTypes
             /\ UNCHANGED << buttonTouches, pressedButtons, activeButtons >>
        /\ (lastOp'.kind = "begin" /\ fresh /\ Len(b) = 1
              /\ joystickTouchId' = b[1].id) =>
             /\ \A i \in 1..Len(events') :
                  events'[i].type = "joystickMove"
             /\ UNCHANGED << buttonTouches, pressedButtons, activeButtons >>
        /\ (IsEnd(lastOp') /\ btnOnly) =>
             /\ \A i \in 1..Len(events') :
                  /\ events'[i].type = "buttonRelease"
                  /\ events'[i].action = buttonTouches[events'[i].by]
             /\ JoystickUntouched
             /\ OtherButtonsUntouched(ids, {buttonTouches[t] : t \in ids})
        /\ (lastOp'.kind = "begin" /\ fresh /\ joystickTouchId # NULL) =>
             /\ \A i \in 1..Len(events') :
                  /\ events'[i].type = "buttonPress"
                  /\ events'[i].action = buttonTouches'[events'[i].by]
             /\ JoystickUntouched
             /\ OtherButtonsUntouched(ids, {buttonTouches'[t] : t \in ids})
    ]_vars

\* C7 witness: with the joystick held by one touch, the end of another
\* touch that was bound to a button has emitted that button's release and
\* nothing else, and the joystick is still held and active.
C7_Witness ==
  /\ IsEnd(lastOp)
  /\ Len(events) = 1
  /\ events[1].type = "buttonRelease"
  /\ joystickTouchId # NULL
  /\ joystickTouchId # events[1].by
  /\ joyActive
  /\ rendered.joyActive

\* C8: a move, end or cancel batch carrying only touch ids for which no
\* binding exists is a no-op: joystickTouchId, joyActive, joyPos,
\* buttonTouches and pressedButtons are unchanged and no callback is
\* invoked; in any such batch no callback is invoked for an unbound id.
C8_UnboundIdIsNoOp ==
  [][(lastOp'.kind = "move" \/ IsEnd(lastOp')) =>
       /\ (\A t \in Ids(lastOp'.batch) : Unbound(t)) =>
            /\ events' = << >>
            /\ UNCHANGED << joystickTouchId, joyActive, joyPos,
                            buttonTouches, pressedButtons, joystickData,
                            activeButtons >>
       /\ \A t \in Ids(lastOp'.batch) :
            Unbound(t) => CausedBy(events', t) = {}]_vars

\* C8 witness: an end batch for an id without binding has been handled
\* while the joystick is held and shown active by another touch and a
\* button is pressed; nothing was emitted.
C8_Witness ==
  /\ IsEnd(lastOp)
  /\ events = << >>
  /\ \A t \in Ids(lastOp.batch) : Unbound(t)
  /\ joystickTouchId # NULL
  /\ joyActive
  /\ rendered.joyActive

\* C9: handling a batch as a cancel leaves exactly the state, and emits
\* exactly the events, that handling the same batch as an end does.
C9_CancelIsEnd ==
  [][lastOp'.kind = "cancel" =>
       LET st == onTouchEnd(Snapshot, lastOp'.batch)
       IN /\ joystickTouchId' = st.jt
          /\ joyActive' = st.ja
          /\ joyPos' = st.jp
          /\ buttonTouches' = st.bt
          /\ pressedButtons' = st.pb
          /\ joystickData' = st.jd
          /\ activeButtons' = st.ab
          /\ events' = st.ev]_vars

\* C9 witness: a cancel batch of two touches has released the joystick and
\* a button.
C9_Witness ==
  /\ lastOp.kind = "cancel"
  /\ OfType(events, "joystickRelease") # {}
  /\ OfType(events, "buttonRelease") # {}

\* C10: after the end or cancel of touch id t, a new begin with the same
\* id is classified by hit-testing alone: inside the joystick circle, with
\* the joystick held by no other touch, it binds the joystick and emits a
\* joystick update; otherwise it binds the button hit-testing finds, if
\* any.
C10_RebindByHitTestAlone ==
  [][(IsEnd(lastOp) /\ lastOp'.kind = "begin" /\ Len(lastOp'.batch) = 1
        /\ lastOp'.batch[1].id \in Ids(lastOp.batch)) =>
       LET t == lastOp'.batch[1]
           btn == hitTestButtons(rendered.overlaySize, t.x, t.y)
       IN IF joystickTouchId \in {NULL, t.id}
             /\ hitTestJoystick(props.joystickSize, rendered.overlaySize, t.x, t.y)
          THEN /\ joystickTouchId' = t.id
               /\ buttonTouches'[t.id] = "none"
               /\ OfType(events', "joystickMove") = {1}
               /\ Len(events') = 1
          ELSE /\ buttonTouches'[t.id] = btn
               /\ joystickTouchId' = joystickTouchId
               /\ btn # "none" => events' = << PressEvent(t.id, btn) >>
               /\ btn = "none" => events' = << >>]_vars

\* the ranges the JoystickData interface documents
InRange(data) ==
  /\ -Scale <= data.x /\ data.x <= Scale
  /\ -Scale <= data.y /\ data.y <= Scale
  /\ 0 <= data.angle /\ data.angle < 360
  /\ 0 <= data.distance /\ data.distance <= Scale

\* C11: every onJoystickMove event the overlay emits, for every configured
\* joystickSize and every touch position, carries x and y in [-1, 1], angle
\* in [0, 360) and distance in [0, 1].
C11_JoystickDataInRange ==
  \A i \in OfType(events, "joystickMove") : InRange(events[i].data)

\* ------------------------------------------- vocabulary of the joystick math
\* the last handler was a begin or a move of one touch and updated the
\* joystick
JoystickUpdated ==
  /\ lastOp.kind \in {"begin", "move"}
  /\ Len(lastOp.batch) = 1
  /\ OfType(events, "joystickMove") # {}

\* the payload of that update
TheUpdate == events[Least(OfType(events, "joystickMove"))].data

\* offset of touch t from the joystick centre the last handler used
JoystickOffset(t) ==
  LET c == joystickCenter(props.joystickSize, lastOp.size)
  IN [x |-> t.x - c.x, y |-> t.y - c.y]

TheOffset == JoystickOffset(lastOp.batch[1])

maxTravel == maxDistance(props.joystickSize)

Beyond(d) == d.x * d.x + d.y * d.y > maxTravel * maxTravel

\* a tenth of a pixel, the resolution of Projected, in 1/Scale pixel
KnobTolerance == Scale \div 10 + 1

\* the knob lies on the circle of radius maxTravel, in the direction of d
KnobOnCircle(d) ==
  LET r == maxTravel * Scale
      k2 == joyPos.x * joyPos.x + joyPos.y * joyPos.y
  IN /\ (r - KnobTolerance) * (r - KnobTolerance) <= k2
     /\ k2 <= (r + KnobTolerance) * (r + KnobTolerance)
     /\ Abs(joyPos.x * d.y - joyPos.y * d.x)
          <= KnobTolerance * (Abs(d.x) + Abs(d.y))
     /\ joyPos.x * d.x + joyPos.y * d.y > 0

\* the normalized component v is the knob component k over maxTravel
KnobOverMaxTravel(v, k) == Abs(v * maxTravel - k) <= maxTravel

\* the normalized component v is the offset component c over maxTravel,
\* clamped to [-1, 1]
AxisClamped(v, c) ==
  IF c >= maxTravel THEN v = Scale
  ELSE IF c <= -maxTravel THEN v = -Scale
  ELSE Abs(v * maxTravel - c * Scale) < maxTravel

\* C12 (as stated): when the bound touch's offset exceeds maxTravel, the
\* knob offset has magnitude maxTravel at the same angle, and the emitted
\* (x, y) equals the knob offset divided by maxTravel.
C12_NormalizedIsKnobOverMaxTravel ==
  JoystickUpdated /\ Beyond(TheOffset) =>
    /\ KnobOnCircle(TheOffset)
    /\ KnobOverMaxTravel(TheUpdate.x, joyPos.x)
    /\ KnobOverMaxTravel(TheUpdate.y, joyPos.y)

\* C12 (amended): when the bound touch's offset exceeds maxTravel, the
\* knob offset has magnitude maxTravel at the same angle and the emitted
\* distance is 1; the emitted x and y are the components of the offset
\* itself divided by maxTravel, each clamped to [-1, 1], which is the knob
\* offset divided by maxTravel when the offset lies along an axis.
C12_KnobProjectedAxesClamped ==
  JoystickUpdated /\ Beyond(TheOffset) =>
    /\ KnobOnCircle(TheOffset)
    /\ TheUpdate.distance = Scale
    /\ AxisClamped(TheUpdate.x, TheOffset.x)
    /\ AxisClamped(TheUpdate.y, TheOffset.y)
    /\ (TheOffset.x = 0 \/ TheOffset.y = 0 =>
          /\ KnobOverMaxTravel(TheUpdate.x, joyPos.x)
          /\ KnobOverMaxTravel(TheUpdate.y, joyPos.y))

C12_Witness ==
  /\ JoystickUpdated /\ Beyond(TheOffset)
  /\ TheOffset.x # 0 /\ TheOffset.y # 0
  /\ TheUpdate.x = Scale /\ TheUpdate.y = Scale
  /\ joyPos.x < joyPos.y

\* C13: a move of the joystick-bound touch to an offset of 2 * maxTravel
\* along the y axis (90 degrees) emits distance 1 with x = 0, y = 1 and
\* stores the knob offset (0, maxTravel); the stored knob offset never has
\* magnitude greater than maxTravel.
C13_ClampedAlongAxis ==
  /\ JoystickUpdated /\ TheOffset = [x |-> 0, y |-> 2 * maxTravel] =>
       /\ TheUpdate = [x |-> 0, y |-> Scale, angle |-> 90,
                        distance |-> Scale]
       /\ joyPos = [x |-> 0, y |-> maxTravel * Scale]
  /\ joyPos.x * joyPos.x + joyPos.y * joyPos.y
       <= (maxTravel * Scale + KnobTolerance)
            * (maxTravel * Scale + KnobTolerance)

C13_Witness ==
  /\ JoystickUpdated /\ lastOp.kind = "move"
  /\ TheOffset = [x |-> 0, y |-> 2 * maxTravel]
  /\ joyPos.y = maxTravel * Scale

\* payloads of the joystick updates among a sequence of events
UpdatesIn(ev) == [i \in OfType(ev, "joystickMove") |-> ev[i].data]

\* C14: a begin that binds the joystick emits a joystick update in the same
\* batch, computed from the begin position: a begin at the joystick centre
\* emits {x: 0, y: 0, angle: 0, distance: 0}, a following move by
\* (maxTravel, 0) emits {x: 1, y: 0, angle: 0, distance: 1}, and the end
\* emits the joystick release.
C14_BeginMoveEndScenario ==
  [][ Len(lastOp'.batch) = 1 =>
        LET t == lastOp'.batch[1]
            c == joystickCenter(props.joystickSize, lastOp'.size)
        IN /\ lastOp'.kind = "begin" /\ joystickTouchId = NULL
                /\ joystickTouchId' = t.id =>
                OfType(events', "joystickMove") # {}
           /\ lastOp'.kind = "begin" /\ joystickTouchId = NULL
                /\ t.x = c.x /\ t.y = c.y =>
                /\ joystickTouchId' = t.id
                /\ UpdatesIn(events') = (1 :> JoystickDataZero)
           /\ lastOp'.kind = "move" /\ joystickTouchId = t.id
                /\ t.x = c.x + maxTravel /\ t.y = c.y =>
                UpdatesIn(events') =
                  (1 :> [x |-> Scale, y |-> 0, angle |-> 0,
                         distance |-> Scale])
           /\ IsEnd(lastOp') /\ joystickTouchId = t.id =>
                OfType(events', "joystickRelease") # {} ]_vars

\* squared distance between the points c and t
Dist2(c, t) == (t.x - c.x) * (t.x - c.x) + (t.y - c.y) * (t.y - c.y)

\* squared distance of touch t from the centre of the k-th button
ButtonDist2(size, k, t) == Dist2(getButtonCenter(size, buttons[k]), t)

\* C15: hit tests are inclusive at the boundary: a begin at distance exactly
\* joystickSize / 2 from the joystick centre, joystick unbound, binds the
\* joystick; a begin at distance exactly 30 from a button centre binds that
\* button; a begin strictly farther from every control centre creates no
\* binding and emits nothing.
C15_HitTestsInclusive ==
  [][ lastOp'.kind = "begin" /\ Len(lastOp'.batch) = 1 =>
        LET t == lastOp'.batch[1]
            size == lastOp'.size
            js == props.joystickSize
            jd2 == Dist2(joystickCenter(js, size), t)
            B == 1..Len(buttons)
        IN /\ joystickTouchId = NULL /\ 4 * jd2 = js * js =>
                /\ joystickTouchId' = t.id
                /\ OfType(events', "joystickMove") # {}
           /\ \A k \in B :
                /\ ButtonDist2(size, k, t) = buttonRadius * buttonRadius
                /\ 4 * jd2 > js * js
                /\ \A j \in B :
                      j < k => ButtonDist2(size, j, t)
                                 > buttonRadius * buttonRadius
                =>
                /\ buttonTouches'[t.id] = buttons[k].type
                /\ buttons[k].type \in pressedButtons'
                /\ events' = << PressEvent(t.id, buttons[k].type) >>
           /\ 4 * jd2 > js * js
                /\ (\A k \in B : ButtonDist2(size, k, t)
                                    > buttonRadius * buttonRadius)
                =>
                /\ events' = << >>
                /\ UNCHANGED << joystickTouchId, joyActive, joyPos,
                                buttonTouches, pressedButtons >> ]_vars

\* a begin on the rim of the joystick circle, off the axes, bound the
\* joystick
C15_Witness ==
  /\ lastOp.kind = "begin" /\ Len(lastOp.batch) = 1
  /\ 4 * Dist2(joystickCenter(props.joystickSize, lastOp.size),
               lastOp.batch[1])
       = props.joystickSize * props.joystickSize
  /\ TheOffset.x # 0 /\ TheOffset.y # 0
  /\ joystickTouchId = lastOp.batch[1].id
  /\ OfType(events, "joystickMove") # {}

\* ------------------------------------------------ vocabulary of the layout
\* an end batch holding touch id alone
EndOf(id) == << [id |-> id, x |-> EndPoint.x, y |-> EndPoint.y] >>

\* C16: a layout event changes only the overlay size: joystickTouchId,
\* joyActive, joyPos, buttonTouches and pressedButtons are the same before
\* and after it, and a touch bound before the layout event still releases
\* its own control when it ends or is cancelled afterwards.
C16_LayoutKeepsBindings ==
  [][ lastOp'.kind = "layout" =>
        /\ events' = << >>
        /\ UNCHANGED << joystickTouchId, joyActive, joyPos, buttonTouches,
                        pressedButtons >>
        /\ \A t \in TouchIds :
             LET ended == onTouchEnd(Snapshot', EndOf(t))
                 cancelled == onTouchCancel(Snapshot', EndOf(t))
             IN /\ BoundToJoystick(t) =>
                     /\ ended.jt = NULL /\ ~ended.ja
                     /\ OfType(ended.ev, "joystickRelease") # {}
                     /\ cancelled = ended
                /\ BoundToButton(t) =>
                     /\ ended.bt[t] = "none"
                     /\ buttonTouches[t] \notin ended.pb
                     /\ ReleaseEvent(t, buttonTouches[t])
                          \in {ended.ev[i] : i \in 1..Len(ended.ev)}
                     /\ cancelled = ended ]_vars

\* C17: a layout event whose width is 0 or whose height is 0 is ignored:
\* overlaySize, and with it the joystick centre and every button centre, is
\* unchanged by it.
C17_ZeroLayoutIgnored ==
  [][ lastOp'.kind = "layout"
        /\ (lastOp'.size.width = 0 \/ lastOp'.size.height = 0) =>
        /\ overlaySize' = overlaySize
        /\ joystickCenter(props.joystickSize, overlaySize')
             = joystickCenter(props.joystickSize, overlaySize)
        /\ \A k \in 1..Len(buttons) :
             getButtonCenter(overlaySize', buttons[k])
               = getButtonCenter(overlaySize, buttons[k]) ]_vars

\* a zero-height layout event arrived after the overlay had been resized
C17_Witness ==
  /\ lastOp.kind = "layout" /\ lastOp.size.height = 0
  /\ overlaySize # initialSize
  /\ overlaySize.width # 0 /\ overlaySize.height # 0

\* buttons whose circle holds touch t, in the order of the buttons list
ButtonsHolding(size, t) ==
  {k \in 1..Len(buttons) :
     ButtonDist2(size, k, t) <= buttonRadius * buttonRadius}

InJoystickCircle(size, t) ==
  4 * Dist2(joystickCenter(props.joystickSize, size), t)
    <= props.joystickSize * props.joystickSize

\* C18: on begin, a touch inside the joystick circle binds the joystick
\* whenever the joystick is unbound, even if the point also lies inside a
\* button circle; when the joystick is already bound, such a touch binds
\* the first button whose circle holds it, and gets no binding when no
\* button circle holds it.
C18_JoystickBeforeButtons ==
  [][ lastOp'.kind = "begin" /\ Len(lastOp'.batch) = 1
        /\ InJoystickCircle(lastOp'.size, lastOp'.batch[1]) =>
        LET t == lastOp'.batch[1]
            hit == ButtonsHolding(lastOp'.size, t)
        IN IF joystickTouchId = NULL
           THEN /\ joystickTouchId' = t.id
                /\ UNCHANGED << buttonTouches, pressedButtons >>
                /\ OfType(events', "buttonPress") = {}
                /\ OfType(events', "joystickMove") # {}
           ELSE /\ UNCHANGED << joystickTouchId, joyPos, joyActive >>
                /\ IF hit # {}
                   THEN /\ buttonTouches' =
                             [buttonTouches EXCEPT
                                ![t.id] = buttons[Least(hit)].type]
                        /\ events' =
                             << PressEvent(t.id, buttons[Least(hit)].type) >>
                   ELSE /\ UNCHANGED << buttonTouches, pressedButtons >>
                        /\ events' = << >> ]_vars

\* a begin at a point inside both the joystick circle and a button circle
\* bound the joystick
C18_Witness ==
  /\ lastOp.kind = "begin" /\ Len(lastOp.batch) = 1
  /\ InJoystickCircle(lastOp.size, lastOp.batch[1])
  /\ ButtonsHolding(lastOp.size, lastOp.batch[1]) # {}
  /\ joystickTouchId = lastOp.batch[1].id
  /\ buttonTouches[lastOp.batch[1].id] = "none"

\* the idle state of the router
Idle ==
  /\ joystickTouchId = NULL
  /\ ~joyActive
  /\ joyPos = joyPosZero
  /\ \A t \in TouchIds : buttonTouches[t] = "none"
  /\ pressedButtons = {}

\* C19: once every touch that began has ended or been cancelled, the router
\* is idle, and stays idle until the next begin: joystickTouchId is null,
\* joyActive is false, joyPos is (0, 0), buttonTouches and pressedButtons
\* are empty.
C19_IdleWhenNoTouchIsDown == live = {} => Idle

\* C20: a move of a touch bound to a button, or of a touch with no binding,
\* is a no-op whatever its new position: it emits no event, leaves the
\* button pressed and presses no other control.
C20_ButtonMoveIsNoOp ==
  [][ lastOp'.kind = "move" /\ Len(lastOp'.batch) = 1
        /\ (BoundToButton(lastOp'.batch[1].id)
               \/ Unbound(lastOp'.batch[1].id)) =>
        /\ events' = << >>
        /\ UNCHANGED << joystickTouchId, joyActive, joyPos, buttonTouches,
                        pressedButtons, joystickData, activeButtons >> ]_vars

\* ------------------------------------------------ vocabulary of the buttons
\* offsets from a button centre at which the hit test is probed
ProbeOffsets ==
  {[x |-> 0, y |-> 0], [x |-> 30, y |-> 0], [x |-> 31, y |-> 0],
   [x |-> 0, y |-> -30], [x |-> -18, y |-> 24], [x |-> -40, y |-> -30],
   [x |-> 40, y |-> 30]}

\* the touch positions and the points around every button centre
ProbePoints(size) ==
  LayoutPoints \cup
    UNION {Around(getButtonCenter(size, buttons[k]), ProbeOffsets) :
             k \in 1..Len(buttons)}

\* the sizes the overlay has: measured, and as captured by the handlers
CurrentSizes == {overlaySize, rendered.overlaySize}

\* the sizes the overlay has or may be given
ProbeSizes == CurrentSizes \cup LayoutSizes

\* the earliest-declared button whose circle holds p, "none" when none does
FirstHolding(size, p) ==
  IF ButtonsHolding(size, p) = {} THEN "none"
  ELSE buttons[Least(ButtonsHolding(size, p))].type

\* C21: hitTestButtons tests the buttons in the order attack, dodge, jump,
\* run and returns the first whose circle contains the point, and the same
\* point with the same layout always resolves to the same button: the
\* button a begin presses is the earliest-declared one that holds it.
C21_FirstDeclaredButtonWins ==
  /\ [k \in 1..Len(buttons) |-> buttons[k].type]
       = << "attack", "dodge", "jump", "run" >>
  /\ \A size \in CurrentSizes : \A p \in ProbePoints(size) :
       hitTestButtons(size, p.x, p.y) = FirstHolding(size, p)
  /\ lastOp.kind = "begin" /\ Len(lastOp.batch) = 1 =>
       \A i \in OfType(events, "buttonPress") :
         events[i].action = FirstHolding(lastOp.size, lastOp.batch[1])

\* a begin resolved to the button declared last
C21_Witness ==
  /\ lastOp.kind = "begin" /\ Len(lastOp.batch) = 1
  /\ FirstHolding(lastOp.size, lastOp.batch[1]) = "run"
  /\ events = << PressEvent(lastOp.batch[1].id, "run") >>
  /\ buttonTouches[lastOp.batch[1].id] = "run"

\* C22: for every button and every overlay size, the hit-test centre
\* computed by getButtonCenter is the centre of the circle drawn for that
\* button.
C22_HitCircleIsDrawnCircle ==
  \A size \in ProbeSizes : \A k \in 1..Len(buttons) :
    getButtonCenter(size, buttons[k]) = drawnButtonCenter(size, buttons[k])

\* C27: for every overlay width and height, the four button hit circles are
\* pairwise disjoint, so no point is inside two button circles.
C27_ButtonCirclesDisjoint ==
  \A size \in ProbeSizes :
    /\ \A j, k \in 1..Len(buttons) :
         j < k =>
           Dist2(getButtonCenter(size, buttons[j]),
                 getButtonCenter(size, buttons[k]))
             > (2 * buttonRadius) * (2 * buttonRadius)
    /\ \A p \in ProbePoints(size) :
         Cardinality(ButtonsHolding(size, p)) <= 1

\* a button is pressed in an overlay that was resized
C27_Witness ==
  /\ rendered.overlaySize # initialSize
  /\ lastOp.kind = "begin" /\ Len(lastOp.batch) = 1
  /\ Cardinality(ButtonsHolding(lastOp.size, lastOp.batch[1])) = 1
  /\ OfType(events, "buttonPress") # {}

\* ------------------------------------------ vocabulary of the control state
\* the buttons to which a touch the host holds down is bound
ButtonsOfLiveTouches == {buttonTouches[t] : t \in live} \ {"none"}

\* C23: after a batch has been processed, a button is in pressedButtons if
\* and only if at least one live touch is bound to it in buttonTouches: a
\* button does not show as released while a finger that pressed it is
\* still down.
C23_PressedIffBound == pressedButtons = ButtonsOfLiveTouches

\* C24: after a batch has been processed, joyActive is true if and only if
\* joystickTouchId is not null, and whenever joystickTouchId is null the
\* knob offset joyPos is (0, 0).
C24_ActiveIffBound ==
  /\ joyActive <=> joystickTouchId # NULL
  /\ joystickTouchId = NULL => joyPos = joyPosZero

\* the joystick was released while a button was still held
C24_Witness ==
  /\ IsEnd(lastOp)
  /\ OfType(events, "joystickRelease") # {}
  /\ joystickTouchId = NULL /\ ~joyActive /\ joyPos = joyPosZero
  /\ \E t \in TouchIds : buttonTouches[t] # "none"

\* the greatest element of a non-empty set of numbers
Greatest(S) == CHOOSE i \in S : \A j \in S : j <= i

\* C26: GameScreen mirrors the overlay: after every batch activeButtons
\* equals pressedButtons, and joystickData equals the last onJoystickMove
\* payload while the joystick is bound and the zero vector while it is not.
C26_GameScreenMirrors ==
  [][ lastOp'.kind \in {"begin", "move", "end", "cancel"} =>
        /\ activeButtons' = pressedButtons'
        /\ IF joystickTouchId' = NULL
           THEN joystickData' = JoystickDataZero
           ELSE IF OfType(events', "joystickMove") # {}
           THEN joystickData'
                  = events'[Greatest(OfType(events', "joystickMove"))].data
           ELSE joystickData' = joystickData ]_vars

\* a joystick update reached GameScreen while a button was held
C26_Witness ==
  /\ lastOp.kind = "move" /\ joystickTouchId # NULL
  /\ OfType(events, "joystickMove") # {}
  /\ joystickData # JoystickDataZero
  /\ joystickData = events[Greatest(OfType(events, "joystickMove"))].data
  /\ activeButtons # {} /\ activeButtons = pressedButtons

\* number of touches bound to button a in buttonTouches
BoundTo(a) == Cardinality({t \in TouchIds : buttonTouches[t] = a})

\* C25: the emitted events are balanced: at every point, for each action a,
\* the number of onButtonPress(a) minus the number of onButtonRelease(a)
\* emitted so far equals the number of touches bound to a, and
\* onJoystickRelease is emitted only when an onJoystickMove has been
\* emitted since the previous release.
C25_EventsBalanced ==
  /\ \A a \in ActionType : emitted.net[a] = BoundTo(a)
  /\ ~emitted.unmatched

\* one of two touches that held the same button has ended
C25_Witness ==
  /\ IsEnd(lastOp)
  /\ \E i \in OfType(events, "buttonRelease") :
       /\ emitted.net[events[i].action] = 1
       /\ BoundTo(events[i].action) = 1

\* -------------------------------------- vocabulary of the legacy joystick
\* what VirtualJoystick shows and whom it follows
LegacyControl ==
  [activeTouchId |-> virtualJoystick.activeTouchId,
   isActive |-> virtualJoystick.isActive,
   position |-> virtualJoystick.position]

\* C28: in the legacy VirtualJoystick, while a touch controls the joystick,
\* a begin of any other touch and an end or cancel whose changedTouches
\* does not contain the controlling id leave activeTouchId, isActive and
\* position unchanged and call neither onMove nor onRelease; only an end
\* or cancel containing the controlling id releases it, exactly once.
C28_LegacyKeepsItsTouch ==
  [][ virtualJoystick.activeTouchId # NULL =>
        LET own == virtualJoystick.activeTouchId \in Ids(lastOp'.batch)
        IN /\ lastOp'.kind = "begin" \/ (IsEnd(lastOp') /\ ~own) =>
                /\ LegacyControl' = LegacyControl
                /\ events' = << >>
           /\ IsEnd(lastOp') /\ own =>
                /\ LegacyControl' =
                     [activeTouchId |-> NULL, isActive |-> FALSE,
                      position |-> joyPosZero]
                /\ events' =
                     << JoyReleaseEvent(virtualJoystick.activeTouchId) >>
           /\ virtualJoystick'.activeTouchId = NULL
                \/ OfType(events', "joystickRelease") # {} =>
                IsEnd(lastOp') /\ own ]_vars

\* two touches ended together, the controlling one among them: the
\* joystick was released once
C28_Witness ==
  /\ IsEnd(lastOp) /\ Len(lastOp.batch) = 2
  /\ events = << JoyReleaseEvent(lastOp.batch[2].id) >>
  /\ virtualJoystick.activeTouchId = NULL
  /\ ~virtualJoystick.isActive

====
